---- MODULE Spec2Model ----
(***************************************************************************)
(* Model of src/id-management/app-id-manager.js: the AppIdManager class    *)
(* (marker-file lock, JSON registry, keyword matching, id allocation) and  *)
(* the FlexibleBackupSystem class (watcher, snapshots, recovery).          *)
(*                                                                         *)
(* A JavaScript string is a sequence of UTF-16 code units (naturals).      *)
(* Timestamps (last_updated, created_date, the marker's timestamp) are not *)
(* read by any code path and are left out of the records.                  *)
(***************************************************************************)
EXTENDS Integers, Sequences, FiniteSets, TLC

----------------------------------------------------------------------------
(* Strings                                                                 *)

SPACE == <<32>>
HYPHEN == <<45>>
ZERO == <<48>>

\* /\w/ without the u flag: [A-Za-z0-9_]
IsWordChar(c) == c \in (48..57) \cup (65..90) \cup {95} \cup (97..122)

\* /\s/: the ECMAScript WhiteSpace and LineTerminator code points
IsSpaceChar(c) ==
  c \in {9, 10, 11, 12, 13, 32, 160, 5760, 8232, 8233, 8239, 8287, 12288, 65279}
        \cup (8192..8202)

IsDigit(c) == c \in 48..57

\* String.prototype.toLowerCase on the code units the model uses: ASCII
\* capitals map to their small letters, kana, kanji, digits and
\* punctuation have no case mapping
toLowerCase(s) == [i \in DOMAIN s |-> IF s[i] \in 65..90 THEN s[i] + 32 ELSE s[i]]

\* s.substring(0, n)
substring0(s, n) == IF Len(s) <= n THEN s ELSE SubSeq(s, 1, n)

\* text.includes(kw)
includes(text, kw) ==
  \E i \in 0..(Len(text) - Len(kw)) :
    \A j \in 1..Len(kw) : text[i + j] = kw[j]

\* s.replace(/[^\w\s]/g, '')
RECURSIVE stripNonWord(_)
stripNonWord(s) ==
  IF s = <<>> THEN <<>>
  ELSE IF IsWordChar(Head(s)) \/ IsSpaceChar(Head(s))
       THEN <<Head(s)>> \o stripNonWord(Tail(s))
       ELSE stripNonWord(Tail(s))

\* s.replace(/\s+/g, '-'): every maximal run of white space becomes one '-'
RECURSIVE hyphenate(_, _)
hyphenate(s, inRun) ==
  IF s = <<>> THEN <<>>
  ELSE IF IsSpaceChar(Head(s))
       THEN (IF inRun THEN <<>> ELSE HYPHEN) \o hyphenate(Tail(s), TRUE)
       ELSE <<Head(s)>> \o hyphenate(Tail(s), FALSE)

\* s.match(/[\w]+/g) || []: the maximal runs of word characters, in order
RECURSIVE matchWords(_, _)
matchWords(s, cur) ==
  IF s = <<>> THEN (IF cur = <<>> THEN <<>> ELSE <<cur>>)
  ELSE IF IsWordChar(Head(s))
       THEN matchWords(Tail(s), Append(cur, Head(s)))
       ELSE (IF cur = <<>> THEN <<>> ELSE <<cur>>) \o matchWords(Tail(s), <<>>)

\* [...new Set(words)]: duplicates removed, first occurrences kept in order
RECURSIVE dedupe(_, _)
dedupe(ws, seen) ==
  IF ws = <<>> THEN <<>>
  ELSE IF Head(ws) \in seen
       THEN dedupe(Tail(ws), seen)
       ELSE <<Head(ws)>> \o dedupe(Tail(ws), seen \cup {Head(ws)})

\* array.filter(word => word.length >= 2)
RECURSIVE filterLen2(_)
filterLen2(ws) ==
  IF ws = <<>> THEN <<>>
  ELSE IF Len(Head(ws)) >= 2
       THEN <<Head(ws)>> \o filterLen2(Tail(ws))
       ELSE filterLen2(Tail(ws))

\* array.join(' ')
RECURSIVE join(_)
join(ws) ==
  IF ws = <<>> THEN <<>>
  ELSE IF Len(ws) = 1 THEN Head(ws)
       ELSE Head(ws) \o SPACE \o join(Tail(ws))

\* parseInt(s) of a string of decimal digits
RECURSIVE parseIntFrom(_, _)
parseIntFrom(s, acc) ==
  IF s = <<>> \/ ~IsDigit(Head(s)) THEN acc
  ELSE parseIntFrom(Tail(s), acc * 10 + (Head(s) - 48))

parseInt(s) == parseIntFrom(s, 0)

\* String(n) for a natural number
RECURSIVE String(_)
String(n) ==
  IF n < 10 THEN <<48 + n>>
  ELSE String(n \div 10) \o <<48 + (n % 10)>>

\* s.padStart(3, '0'): pads on the left up to length 3, never truncates
RECURSIVE padStart3(_)
padStart3(s) == IF Len(s) >= 3 THEN s ELSE padStart3(ZERO \o s)

----------------------------------------------------------------------------
(* Registry object and its key order                                       *)

\* A key that is an array index ("0", "7", "25"; not "007") is enumerated
\* before all other keys, in ascending numeric order
IsArrayIndex(k) ==
  /\ Len(k) \in 1..9
  /\ \A i \in DOMAIN k : IsDigit(k[i])
  /\ (Len(k) > 1 => k[1] # 48)

\* The registry.registry object is the sequence of its [key, value] pairs
\* in own-property-key order (what Object.entries and JSON.stringify see).
hasKey(obj, k) == \E i \in DOMAIN obj : obj[i].key = k

\* Position of a new array-index key: after the index keys smaller than it
indexSlot(obj, k) ==
  Cardinality({i \in DOMAIN obj :
                 IsArrayIndex(obj[i].key) /\ parseInt(obj[i].key) < parseInt(k)})

\* obj[k] = v on an object that enumerates every key in insertion order
objectSetInsertionOrder(obj, k, v) ==
  IF hasKey(obj, k)
  THEN [i \in DOMAIN obj |-> IF obj[i].key = k THEN [key |-> k, value |-> v] ELSE obj[i]]
  ELSE Append(obj, [key |-> k, value |-> v])

\* obj[k] = v
objectSet(obj, k, v) ==
  IF hasKey(obj, k)
  THEN [i \in DOMAIN obj |-> IF obj[i].key = k THEN [key |-> k, value |-> v] ELSE obj[i]]
  ELSE IF IsArrayIndex(k)
       THEN SubSeq(obj, 1, indexSlot(obj, k))
              \o <<[key |-> k, value |-> v]>>
              \o SubSeq(obj, indexSlot(obj, k) + 1, Len(obj))
       ELSE Append(obj, [key |-> k, value |-> v])

----------------------------------------------------------------------------
(* AppIdManager: pure parts                                                *)

FIRST_ID == <<48, 48, 49>>

\* The registry a missing file stands for
emptyRegistry == [registry |-> <<>>, next_available_id |-> FIRST_ID]

generateTypeKey(title) ==
  substring0(hyphenate(stripNonWord(toLowerCase(title)), FALSE), 20)

extractKeywords(title, description) ==
  LET text == title \o SPACE \o description
      words == matchWords(toLowerCase(text), <<>>)
      keywords == filterLen2(words)
      unique == dedupe(keywords, {})
  IN  IF Len(unique) <= 5 THEN unique ELSE SubSeq(unique, 1, 5)

\* typeData.keywords.some(keyword => text.includes(keyword.toLowerCase()))
hasKeyword(typeData, text) ==
  \E n \in DOMAIN typeData.keywords : includes(text, toLowerCase(typeData.keywords[n]))

\* The text compared without toLowerCase()
findMatchingIndexCaseSensitive(title, description, registry) ==
  LET text == title \o SPACE \o description
      hits == {i \in DOMAIN registry.registry : hasKeyword(registry.registry[i].value, text)}
  IN  IF hits = {} THEN 0 ELSE CHOOSE i \in hits : \A j \in hits : i <= j

\* Index of the first entry, in enumeration order, with a keyword contained
\* in the text; 0 stands for null
findMatchingIndex(title, description, registry) ==
  LET text == toLowerCase(title \o SPACE \o description)
      hits == {i \in DOMAIN registry.registry : hasKeyword(registry.registry[i].value, text)}
  IN  IF hits = {} THEN 0 ELSE CHOOSE i \in hits : \A j \in hits : i <= j

NULL == [id |-> <<>>, name |-> <<>>, keywords |-> <<>>]

findMatchingAppType(title, description, registry) ==
  LET i == findMatchingIndex(title, description, registry)
  IN  IF i = 0 THEN NULL ELSE registry.registry[i].value

\* The entry registerNewAppType stores under the type key
newTypeData(title, description, registry) ==
  [id |-> registry.next_available_id, name |-> title,
   keywords |-> extractKeywords(title, description)]

\* newId + 1 without parseInt: string concatenation
nextIdConcatenated(newId) == padStart3(newId \o <<49>>)

\* String(parseInt(newId) + 1).padStart(3, '0')
nextId(newId) == padStart3(String(parseInt(newId) + 1))

\* registerNewAppType without the update of next_available_id
registerNewAppTypeSameNextId(title, description, registry) ==
  [registry |-> objectSet(registry.registry, generateTypeKey(title),
                          newTypeData(title, description, registry)),
   next_available_id |-> registry.next_available_id]

\* The registry after registerNewAppType; the id it returns is the
\* next_available_id of the registry it was given
registerNewAppType(title, description, registry) ==
  [registry |-> objectSet(registry.registry, generateTypeKey(title),
                          newTypeData(title, description, registry)),
   next_available_id |-> nextId(registry.next_available_id)]

\* request.description || request.requirements?.join(' ') || ''
descriptionOf(request) ==
  IF request.description # <<>> THEN request.description
  ELSE join(request.requirements)

\* The body of getUniqueAppId between loadRegistry and saveRegistry:
\* the id, whether a new type was registered, and the registry to save
assignId(request, registry) ==
  LET matchedType == findMatchingAppType(request.title, descriptionOf(request), registry)
  IN  IF matchedType # NULL
      THEN [appId |-> matchedType.id, isNew |-> FALSE, typeData |-> matchedType,
            registry |-> registry]
      ELSE [appId |-> registry.next_available_id, isNew |-> TRUE,
            typeData |-> newTypeData(request.title, descriptionOf(request), registry),
            registry |-> registerNewAppType(request.title, descriptionOf(request), registry)]

----------------------------------------------------------------------------
(* Registry file: bytes on disk                                            *)

\* UTF-8 length of a string without surrogates, quotes or control characters
RECURSIVE utf8Len(_)
utf8Len(s) ==
  IF s = <<>> THEN 0
  ELSE (IF Head(s) < 128 THEN 1 ELSE IF Head(s) < 2048 THEN 2 ELSE 3) + utf8Len(Tail(s))

RECURSIVE keywordsSize(_)
keywordsSize(kws) ==
  IF kws = <<>> THEN 0
  ELSE 8 + utf8Len(Head(kws)) + 2 + (IF Len(kws) > 1 THEN 2 ELSE 0) + keywordsSize(Tail(kws))

entrySize(e) ==
  (utf8Len(e.key) + 10)
  + (utf8Len(e.value.id) + 16)
  + (utf8Len(e.value.name) + 18)
  + 18 + (IF e.value.keywords = <<>> THEN 2 ELSE 2 + keywordsSize(e.value.keywords) + 8) + 2
  + 35 + 5

RECURSIVE entriesSize(_)
entriesSize(obj) ==
  IF obj = <<>> THEN 0
  ELSE entrySize(Head(obj)) + (IF Len(obj) > 1 THEN 2 ELSE 0) + entriesSize(Tail(obj))

\* Byte length of JSON.stringify(registry, null, 2), last_updated and
\* created_date included (ISO strings of fixed length)
jsonSize(registry) ==
  2 + 14 + (IF registry.registry = <<>> THEN 2 ELSE 2 + entriesSize(registry.registry) + 4) + 2
  + (utf8Len(registry.next_available_id) + 27) + 45 + 1

ABSENT == [kind |-> "absent"]
torn(n) == [kind |-> "torn", size |-> n]
json(registry) == [kind |-> "json", data |-> registry]

fileSize(f) ==
  CASE f.kind = "absent" -> 0
    [] f.kind = "torn" -> f.size
    [] f.kind = "json" -> jsonSize(f.data)

\* fs.writeFileSync, first half: open(path, 'w') creates or truncates
openTruncate(f) == torn(0)

\* fs.writeFileSync, second half: the bytes go to offset 0 of what the file
\* holds by then; bytes another writer put beyond them stay
writeBytes(f, registry) ==
  IF jsonSize(registry) >= fileSize(f) THEN json(registry) ELSE torn(fileSize(f))

\* JSON.parse(fs.readFileSync(...)) succeeds
parses(f) == f.kind = "json"

\* loadRegistry on a file that is missing or parses
loadRegistry(f) == IF f.kind = "absent" THEN emptyRegistry ELSE f.data

----------------------------------------------------------------------------
(* Requests                                                                *)

Request(title, description, requirements) ==
  [title |-> title, description |-> description, requirements |-> requirements]

\* {title: "時間管理ツール", description: "タイマー"}
ReqJikan ==
  Request(<<26178, 38291, 31649, 29702, 12484, 12540, 12523>>,
          <<12479, 12452, 12510, 12540>>, <<>>)

\* {title: "ポモドーロタイマー", description: "25分集中"}
ReqPomodoro ==
  Request(<<12509, 12514, 12489, 12540, 12525, 12479, 12452, 12510, 12540>>,
          <<50, 53, 20998, 38598, 20013>>, <<>>)

\* {title: "家計簿アプリ", description: "収支管理"}
ReqKakeibo ==
  Request(<<23478, 35336, 31807, 12450, 12503, 12522>>,
          <<21454, 25903, 31649, 29702>>, <<>>)

\* {title: "Timer", description: "timer app"}
ReqTimer ==
  Request(<<84, 105, 109, 101, 114>>, <<116, 105, 109, 101, 114, 32, 97, 112, 112>>, <<>>)

\* {title: "Calc", requirements: ["add", "sub"]}
ReqCalc ==
  Request(<<67, 97, 108, 99>>, <<>>, << <<97, 100, 100>>, <<115, 117, 98>> >>)

\* {title: "Calc Timer"}
ReqCalcTimer ==
  Request(<<67, 97, 108, 99, 32, 84, 105, 109, 101, 114>>, <<>>, <<>>)

\* {title: "ab.c"} and {title: "a.bc"}: both titles give the key "abc"
ReqAbDotC == Request(<<97, 98, 46, 99>>, <<>>, <<>>)
ReqADotBc == Request(<<97, 46, 98, 99>>, <<>>, <<>>)

\* {title: "25"} and {title: "7", description: "seven"}: the keys "25" and
\* "7" are array indices
Req25 == Request(<<50, 53>>, <<>>, <<>>)
Req7 == Request(<<55>>, <<115, 101, 118, 101, 110>>, <<>>)

\* {title: "25 seven timer", description: "ab bc"}: a text with keywords
\* of several categories
ReqSeveral ==
  Request(<<50, 53, 32, 115, 101, 118, 101, 110, 32, 116, 105, 109, 101, 114>>,
          <<97, 98, 32, 98, 99>>, <<>>)

\* The requests of runs that exercise the matching order
MatchRequests == {ReqTimer, Req25, Req7, ReqSeveral, ReqAbDotC, ReqADotBc}

\* The requests of sequential runs
Requests ==
  {ReqJikan, ReqPomodoro, ReqKakeibo, ReqTimer, ReqCalc, ReqCalcTimer, ReqAbDotC, ReqADotBc}

\* The requests of concurrent runs
ConcurrentRequests == {ReqTimer, ReqCalc}

\* {title: "ab"}
ReqAb == Request(<<97, 98>>, <<>>, <<>>)

\* The requests of runs in which processes end without notice
LockRequests == {ReqAb}

NoRequest == Request(<<>>, <<>>, <<>>)

----------------------------------------------------------------------------
(* AppIdManager: state                                                     *)

\* process.pid of the processes that call getUniqueAppId
Procs == {1, 2}

\* Calls of getUniqueAppId made in one run of concurrent callers
MaxCalls == 3
\* Calls of getUniqueAppId made in one run of a single caller
MaxSeqCalls == 3
\* Calls of getUniqueAppId made in one run that exercises the matching order
MaxMatchCalls == 3
\* Calls of getUniqueAppId made in one run in which processes may end
MaxCrashCalls == 2

\* const maxAttempts = 50
maxAttempts == 50

VARIABLES
  lockFile,      \* locks/app-id.lock: 0 when missing, else the pid written in it
  registryFile,  \* app-type-registry.json: ABSENT, json(registry) or torn(size)
  logFile,       \* logs/id-assignment.log: the lines appended, oldest first
  pc,            \* where each process is in getUniqueAppId
  attempts,      \* acquireLock's local counter
  request,       \* the argument of the call in progress
  registry,      \* getUniqueAppId's local registry
  result,        \* appId, isNew and the pending error of the call in progress
  returned,      \* the finished calls, oldest first
  statsError     \* whether a getStats call has thrown

idVars ==
  <<lockFile, registryFile, logFile, pc, attempts, request, registry, result, returned,
    statsError>>

VARIABLES
  watchFile,     \* app-requests.md: NOFILE or file(content)
  backupFiles,   \* auto-backup/backup_<timestamp>.json: timestamp -> backup
  latestBackup,  \* auto-backup/latest-backup.json: NOFILE or file(backup)
  events,        \* watcher events not yet handled, oldest first
  clock,         \* new Date(), in milliseconds
  edits,         \* writes and deletions by editors so far
  hasRequire,    \* whether `require` is bound where gitAutoCommit runs
  handled,       \* the last event handled and what its handler did
  watching       \* whether the process that runs the watcher is alive

bkVars ==
  <<watchFile, backupFiles, latestBackup, events, clock, edits, hasRequire, handled, watching>>

vars == <<idVars, bkVars>>

\* after: how many calls had finished when this one was made
NoResult == [appId |-> <<>>, isNew |-> FALSE, typeData |-> NULL, error |-> "none", after |-> 0]

idInit ==
  /\ lockFile = 0
  /\ registryFile = ABSENT
  /\ logFile = <<>>
  /\ pc = [p \in Procs |-> "idle"]
  /\ attempts = [p \in Procs |-> 0]
  /\ request = [p \in Procs |-> NoRequest]
  /\ registry = [p \in Procs |-> emptyRegistry]
  /\ result = [p \in Procs |-> NoResult]
  /\ returned = <<>>
  /\ statsError = FALSE

started == Len(returned) + Cardinality({p \in Procs : pc[p] # "idle"})

\* The call of p ends: its promise settles with the id or with the error
settle(p, error) ==
  /\ returned' = Append(returned,
                        [pid |-> p, request |-> request[p], appId |-> result[p].appId,
                         isNew |-> result[p].isNew, typeData |-> result[p].typeData,
                         error |-> error, after |-> result[p].after])
  /\ pc' = [pc EXCEPT ![p] = "idle"]
  /\ attempts' = [attempts EXCEPT ![p] = 0]
  /\ request' = [request EXCEPT ![p] = NoRequest]
  /\ registry' = [registry EXCEPT ![p] = emptyRegistry]
  /\ result' = [result EXCEPT ![p] = NoResult]

\* The lines findMatchingAppType, getUniqueAppId and registerNewAppType append
logLines(title, a) ==
  IF a.isNew
  THEN <<[line |-> "new", title |-> title, id |-> a.appId]>>
  ELSE <<[line |-> "match", title |-> title, id |-> a.appId],
         [line |-> "existing", title |-> title, id |-> a.appId]>>

----------------------------------------------------------------------------
(* AppIdManager: steps of getUniqueAppId                                   *)

\* A caller invokes getUniqueAppId(r)
getUniqueAppId(p, r) ==
  /\ pc[p] = "idle"
  /\ pc' = [pc EXCEPT ![p] = "acquire"]
  /\ request' = [request EXCEPT ![p] = r]
  /\ attempts' = [attempts EXCEPT ![p] = 0]
  /\ result' = [result EXCEPT ![p] = [NoResult EXCEPT !.after = Len(returned)]]
  /\ UNCHANGED <<lockFile, registryFile, logFile, registry, returned, statsError>>
  /\ UNCHANGED bkVars

\* acquireLock as in the design document: no counter and no timeout
acquireLockPollNoTimeout(p) ==
  /\ pc[p] = "acquire"
  /\ IF lockFile # 0
     THEN UNCHANGED <<pc, attempts>>
     ELSE /\ pc' = [pc EXCEPT ![p] = "lockWrite"]
          /\ attempts' = [attempts EXCEPT ![p] = 0]
  /\ UNCHANGED <<lockFile, registryFile, logFile, request, registry, result, returned,
                 statsError>>
  /\ UNCHANGED bkVars

\* acquireLock called inside the try block: a timeout runs the finally block
acquireLockPollInsideTry(p) ==
  /\ pc[p] = "acquire"
  /\ IF lockFile # 0 /\ attempts[p] < maxAttempts
     THEN /\ attempts' = [attempts EXCEPT ![p] = @ + 1]
          /\ UNCHANGED <<pc, result>>
     ELSE IF attempts[p] >= maxAttempts
          THEN /\ pc' = [pc EXCEPT ![p] = "release"]
               /\ result' = [result EXCEPT ![p].error = "LockTimeout"]
               /\ UNCHANGED attempts
          ELSE /\ pc' = [pc EXCEPT ![p] = "lockWrite"]
               /\ attempts' = [attempts EXCEPT ![p] = 0]
               /\ UNCHANGED result
  /\ UNCHANGED <<lockFile, registryFile, logFile, request, registry, returned, statsError>>
  /\ UNCHANGED bkVars

\* acquireLock: one evaluation of the while condition and what follows it
acquireLockPoll(p) ==
  /\ pc[p] = "acquire"
  /\ IF lockFile # 0 /\ attempts[p] < maxAttempts
     THEN /\ attempts' = [attempts EXCEPT ![p] = @ + 1]
          /\ UNCHANGED <<pc, request, registry, result, returned>>
     ELSE IF attempts[p] >= maxAttempts
          THEN settle(p, "LockTimeout")
          ELSE /\ pc' = [pc EXCEPT ![p] = "lockWrite"]
               /\ attempts' = [attempts EXCEPT ![p] = 0]
               /\ UNCHANGED <<request, registry, result, returned>>
  /\ UNCHANGED <<lockFile, registryFile, logFile, statsError>>
  /\ UNCHANGED bkVars

\* acquireLock: fs.writeFileSync(this.lockFile, {pid, timestamp})
acquireLockWrite(p) ==
  /\ pc[p] = "lockWrite"
  /\ lockFile' = p
  /\ pc' = [pc EXCEPT ![p] = "assign"]
  /\ UNCHANGED <<registryFile, logFile, attempts, request, registry, result, returned,
                 statsError>>
  /\ UNCHANGED bkVars

\* loadRegistry, findMatchingAppType and registerNewAppType with their log
\* lines; a file that does not parse throws into the finally block
assign(p) ==
  /\ pc[p] = "assign"
  /\ IF registryFile.kind = "absent" \/ parses(registryFile)
     THEN LET a == assignId(request[p], loadRegistry(registryFile))
          IN  /\ registry' = [registry EXCEPT ![p] = a.registry]
              /\ result' = [result EXCEPT ![p].appId = a.appId, ![p].isNew = a.isNew,
                                           ![p].typeData = a.typeData]
              /\ logFile' = logFile \o logLines(request[p].title, a)
              /\ pc' = [pc EXCEPT ![p] = "saveOpen"]
     ELSE /\ result' = [result EXCEPT ![p].error = "SyntaxError"]
          /\ pc' = [pc EXCEPT ![p] = "release"]
          /\ UNCHANGED <<registry, logFile>>
  /\ UNCHANGED <<lockFile, registryFile, attempts, request, returned, statsError>>
  /\ UNCHANGED bkVars

\* saveRegistry: fs.writeFileSync opens the file for writing
saveRegistryOpen(p) ==
  /\ pc[p] = "saveOpen"
  /\ registryFile' = openTruncate(registryFile)
  /\ pc' = [pc EXCEPT ![p] = "saveWrite"]
  /\ UNCHANGED <<lockFile, logFile, attempts, request, registry, result, returned,
                 statsError>>
  /\ UNCHANGED bkVars

\* saveRegistry: fs.writeFileSync writes the serialized registry
saveRegistryWrite(p) ==
  /\ pc[p] = "saveWrite"
  /\ registryFile' = writeBytes(registryFile, registry[p])
  /\ pc' = [pc EXCEPT ![p] = "release"]
  /\ UNCHANGED <<lockFile, logFile, attempts, request, registry, result, returned,
                 statsError>>
  /\ UNCHANGED bkVars

\* releaseLock: if (fs.existsSync(this.lockFile))
releaseLockExists(p) ==
  /\ pc[p] = "release"
  /\ IF lockFile # 0
     THEN /\ pc' = [pc EXCEPT ![p] = "unlink"]
          /\ UNCHANGED <<attempts, request, registry, result, returned>>
     ELSE settle(p, result[p].error)
  /\ UNCHANGED <<lockFile, registryFile, logFile, statsError>>
  /\ UNCHANGED bkVars

\* releaseLock: fs.unlinkSync(this.lockFile); a missing file throws ENOENT
\* out of the finally block
releaseLockUnlink(p) ==
  /\ pc[p] = "unlink"
  /\ IF lockFile # 0
     THEN /\ lockFile' = 0
          /\ settle(p, result[p].error)
     ELSE /\ UNCHANGED lockFile
          /\ settle(p, "ENOENT")
  /\ UNCHANGED <<registryFile, logFile, statsError>>
  /\ UNCHANGED bkVars

\* The process ends (killed, or the machine stops) inside the try block of
\* getUniqueAppId: no finally block runs, and the pid makes no further step
crash(p) ==
  /\ pc[p] \in {"assign", "saveOpen", "saveWrite", "release", "unlink"}
  /\ pc' = [pc EXCEPT ![p] = "crashed"]
  /\ UNCHANGED <<lockFile, registryFile, logFile, attempts, request, registry, result,
                 returned, statsError>>
  /\ UNCHANGED bkVars

\* getStats (like listAppTypes): loadRegistry without the lock
getStats ==
  /\ statsError' = (statsError \/ ~(registryFile.kind = "absent" \/ parses(registryFile)))
  /\ UNCHANGED <<lockFile, registryFile, logFile, pc, attempts, request, registry, result,
                 returned>>
  /\ UNCHANGED bkVars

----------------------------------------------------------------------------
(* FlexibleBackupSystem: documents                                         *)

\* "# A": a markdown document
DocA == <<35, 32, 65>>
\* "b": a document of one free-text line
DocB == <<98>>

\* What an editor may write to app-requests.md
Documents == {DocA, DocB}

\* The template createEmergencyFile writes
emergencyContent ==
  <<35, 32, 12450, 12503, 12522, 35201, 27714, 12522, 12473, 12488, 65288,
    32202, 24613, 24489, 26087, 29256, 65289, 10, 10, 9888, 65039, 32, 12371,
    12398, 12501, 12449, 12452, 12523, 12399, 33258, 21205, 24489, 26087,
    12395, 12424, 12426, 29983, 25104, 12373, 12428, 12414, 12375, 12383,
    12290, 10, 10, 35, 35, 32, 24489, 26087, 26041, 27861, 10, 49, 46, 32,
    97, 117, 116, 111, 45, 98, 97, 99, 107, 117, 112, 47, 12501, 12457,
    12523, 12480, 20869, 12398, 108, 97, 116, 101, 115, 116, 45, 98, 97, 99,
    107, 117, 112, 46, 106, 115, 111, 110, 12434, 30906, 35469, 10, 50, 46,
    32, 24517, 35201, 12395, 24540, 12376, 12390, 25163, 21205, 12391, 35201,
    27714, 12434, 20877, 36861, 21152, 10, 51, 46, 32, 71, 105, 116, 23653,
    27508, 12363, 12425, 24489, 20803, 12418, 21487, 33021, 10, 10, 35, 35,
    32, 29694, 22312, 12398, 35201, 27714, 10, 45, 32, 24489, 26087, 24460,
    12395, 35201, 27714, 12434, 20877, 36861, 21152, 12375, 12390, 12367,
    12384, 12373, 12356, 10>>

NOFILE == [kind |-> "absent"]
file(content) == [kind |-> "text", content |-> content]

\* crypto.createHash('md5').update(content).digest('hex'): equal contents
\* give equal digests, and no two documents of the model collide
md5(content) == <<"md5", content>>

\* content.trim(): line terminators and white space removed at both ends
RECURSIVE trimStart(_)
trimStart(s) == IF s # <<>> /\ IsSpaceChar(Head(s)) THEN trimStart(Tail(s)) ELSE s

\* JSON.parse succeeds on the content; of the texts that start with a
\* bracket the model only has "[]" and "{}"
jsonParses(content) == trimStart(content) \in {<<91, 93>>, <<123, 125>>}

\* parseRequests: the format it reports (the parsed data is not read back)
parseRequests(content) ==
  IF trimStart(content) # <<>> /\ Head(trimStart(content)) \in {91, 123}
  THEN IF jsonParses(content) THEN "json" ELSE "raw"
  ELSE IF includes(content, <<35>>) THEN "markdown"
       ELSE "natural_language"

\* The backup object createBackup builds
backupOf(content, timestamp, event) ==
  [backup_timestamp |-> timestamp,
   event_type |-> event,
   original_md5 |-> md5(content),
   original_content |-> content,
   parsed_requests |-> parseRequests(content),
   file_size |-> Len(content)]

----------------------------------------------------------------------------
(* FlexibleBackupSystem: state                                             *)

\* Writes and deletions of the document by editors in one run
MaxEdits == 3
\* Milliseconds the clock advances in one run
MaxClock == 3


\* error: what the try block of the handler threw
NotHandled == [event |-> "none", hadBackup |-> FALSE, emergency |-> FALSE, error |-> "none"]

\* startWatching with ignoreInitial: false reports a file that is there
bkInit ==
  /\ watchFile \in {NOFILE} \cup {file(c) : c \in Documents}
  /\ backupFiles = <<>>
  /\ latestBackup = NOFILE
  /\ events = IF watchFile = NOFILE THEN <<>> ELSE <<"add">>
  /\ clock = 0
  /\ edits = 0
  /\ hasRequire \in BOOLEAN
  /\ handled = NotHandled
  /\ watching = TRUE

\* The event the watcher raises for a write of the document
writeEvent(f) == IF f = NOFILE THEN "add" ELSE "change"

\* The queue after the watcher has raised evs; a process that has ended
\* raises nothing
raise(evs) == IF watching THEN events \o evs ELSE events

----------------------------------------------------------------------------
(* FlexibleBackupSystem: editors, clock and handlers                       *)

\* An editor creates or rewrites the document
editorWrite(c) ==
  /\ edits < MaxEdits
  /\ watchFile # file(c)
  /\ watchFile' = file(c)
  /\ events' = raise(<<writeEvent(watchFile)>>)
  /\ edits' = edits + 1
  /\ handled' = NotHandled
  /\ UNCHANGED <<backupFiles, latestBackup, clock, hasRequire, watching>>
  /\ UNCHANGED idVars

\* The document is deleted
editorDelete ==
  /\ edits < MaxEdits
  /\ watchFile # NOFILE
  /\ watchFile' = NOFILE
  /\ events' = raise(<<"unlink">>)
  /\ edits' = edits + 1
  /\ handled' = NotHandled
  /\ UNCHANGED <<backupFiles, latestBackup, clock, hasRequire, watching>>
  /\ UNCHANGED idVars

\* A millisecond passes
tick ==
  /\ clock < MaxClock
  /\ clock' = clock + 1
  /\ UNCHANGED <<watchFile, backupFiles, latestBackup, events, edits, hasRequire, handled,
                 watching>>
  /\ UNCHANGED idVars

\* backupFiles with the file named after the timestamp written
writeBackupFile(files, backup) ==
  IF \E i \in DOMAIN files : files[i].backup_timestamp = backup.backup_timestamp
  THEN [i \in DOMAIN files |->
          IF files[i].backup_timestamp = backup.backup_timestamp THEN backup ELSE files[i]]
  ELSE Append(files, backup)

\* createBackup(event): the 'add' and 'change' handlers
createBackup(event) ==
  /\ watching
  /\ events # <<>> /\ Head(events) = event
  /\ events' = Tail(events)
  /\ IF watchFile = NOFILE
     THEN UNCHANGED <<backupFiles, latestBackup>>
     ELSE LET backup == backupOf(watchFile.content, clock, event)
          IN  /\ backupFiles' = writeBackupFile(backupFiles, backup)
              /\ latestBackup' = file(backup)
  /\ handled' = [NotHandled EXCEPT !.event = event]
  /\ UNCHANGED <<watchFile, clock, edits, hasRequire, watching>>
  /\ UNCHANGED idVars

\* restoreFromBackup succeeds: the latest backup exists
canRestore == latestBackup # NOFILE

\* gitAutoCommit throws: `require` is not bound in an ES module
gitAutoCommitThrows == ~hasRequire

\* The document is left missing where createEmergencyFile would write it
createEmergencyFileSkipped == NOFILE

\* createEmergencyFile: fs.writeFileSync(this.watchFile, emergencyContent)
createEmergencyFile == file(emergencyContent)

\* What the try block of handleFileDeletion throws
restoreError ==
  IF ~canRestore THEN "NoBackup"
  ELSE IF gitAutoCommitThrows THEN "ReferenceError"
  ELSE "none"

\* handleFileDeletion: the 'unlink' handler. restoreFromBackup, then
\* gitAutoCommit; whatever either throws is caught and createEmergencyFile
\* runs
handleFileDeletion ==
  /\ watching
  /\ events # <<>> /\ Head(events) = "unlink"
  /\ LET restored == IF canRestore THEN file(latestBackup.content.original_content)
                     ELSE watchFile
         failed == ~canRestore \/ gitAutoCommitThrows
         final == IF failed THEN createEmergencyFile ELSE restored
         raised == (IF canRestore THEN <<writeEvent(watchFile)>> ELSE <<>>)
                   \o (IF failed THEN <<writeEvent(restored)>> ELSE <<>>)
     IN  /\ watchFile' = final
         /\ events' = Tail(events) \o raised
         /\ handled' = [event |-> "unlink", hadBackup |-> canRestore, emergency |-> failed,
                         error |-> restoreError]
  /\ UNCHANGED <<backupFiles, latestBackup, clock, edits, hasRequire, watching>>
  /\ UNCHANGED idVars

----------------------------------------------------------------------------
(* FlexibleBackupSystem: handlers that meet a storage error                *)

\* The fs calls of createBackup that can throw
BackupSteps == {"read", "writeBackup", "writeLatest"}

\* createBackup(event) with fs.readFileSync or one of the two
\* fs.writeFileSync calls throwing. The 'add' and 'change' listeners have no
\* try block, so the error leaves the listener; whether the process
\* survives that is up to the emitter and the runtime
createBackupThrows(event, at) ==
  /\ watching
  /\ events # <<>> /\ Head(events) = event
  /\ watchFile # NOFILE
  /\ events' = Tail(events)
  /\ IF at = "writeLatest"
     THEN backupFiles' = writeBackupFile(backupFiles, backupOf(watchFile.content, clock, event))
     ELSE UNCHANGED backupFiles
  /\ handled' = [event |-> event, hadBackup |-> FALSE, emergency |-> FALSE, error |-> "EIO"]
  /\ watching' \in BOOLEAN
  /\ UNCHANGED <<watchFile, latestBackup, clock, edits, hasRequire>>
  /\ UNCHANGED idVars

\* handleFileDeletion with restoreFromBackup throwing on its read of the
\* latest backup: the catch block runs createEmergencyFile
restoreFromBackupThrows ==
  /\ watching
  /\ events # <<>> /\ Head(events) = "unlink"
  /\ canRestore
  /\ watchFile' = createEmergencyFile
  /\ events' = Tail(events) \o <<writeEvent(watchFile)>>
  /\ handled' = [event |-> "unlink", hadBackup |-> TRUE, emergency |-> TRUE, error |-> "EIO"]
  /\ UNCHANGED <<backupFiles, latestBackup, clock, edits, hasRequire, watching>>
  /\ UNCHANGED idVars

\* handleFileDeletion with fs.writeFileSync of createEmergencyFile throwing
\* inside the catch block: the promise of handleFileDeletion is rejected and
\* the 'unlink' listener does not await it; an unhandled rejection ends the
\* process or is only reported, depending on the runtime
createEmergencyFileThrows ==
  /\ watching
  /\ events # <<>> /\ Head(events) = "unlink"
  /\ restoreError # "none"
  /\ watchFile' = IF canRestore THEN file(latestBackup.content.original_content)
                  ELSE watchFile
  /\ events' = Tail(events) \o (IF canRestore THEN <<writeEvent(watchFile)>> ELSE <<>>)
  /\ handled' = [event |-> "unlink", hadBackup |-> canRestore, emergency |-> FALSE,
                  error |-> "EIO"]
  /\ watching' \in BOOLEAN
  /\ UNCHANGED <<backupFiles, latestBackup, clock, edits, hasRequire>>
  /\ UNCHANGED idVars

----------------------------------------------------------------------------
(* Specifications                                                          *)

\* One of several processes makes a call
callConcurrent(p, r) == started < MaxCalls /\ getUniqueAppId(p, r)

idNext ==
  \/ \E p \in Procs, r \in ConcurrentRequests : callConcurrent(p, r)
  \/ \E p \in Procs : acquireLockPoll(p)
  \/ \E p \in Procs : acquireLockWrite(p)
  \/ \E p \in Procs : assign(p)
  \/ \E p \in Procs : saveRegistryOpen(p)
  \/ \E p \in Procs : saveRegistryWrite(p)
  \/ \E p \in Procs : releaseLockExists(p)
  \/ \E p \in Procs : releaseLockUnlink(p)

\* The watcher is not running
bkOff ==
  /\ watchFile = NOFILE
  /\ backupFiles = <<>>
  /\ latestBackup = NOFILE
  /\ events = <<>>
  /\ clock = 0
  /\ edits = 0
  /\ hasRequire = FALSE
  /\ handled = NotHandled
  /\ watching = FALSE

Init == idInit /\ bkOff

\* Concurrent callers of getUniqueAppId
Next == idNext

Spec == Init /\ [][Next]_vars

\* Concurrent callers, and readers that take no lock
NextReaders == idNext \/ getStats

SpecReaders == Init /\ [][NextReaders]_vars

\* The steps of the call in progress in process p
stepOf(p) ==
  \/ acquireLockPoll(p)
  \/ acquireLockWrite(p)
  \/ assign(p)
  \/ saveRegistryOpen(p)
  \/ saveRegistryWrite(p)
  \/ releaseLockExists(p)
  \/ releaseLockUnlink(p)

\* A process makes a call, in a run where processes may end
callCrash(p, r) == started < MaxCrashCalls /\ getUniqueAppId(p, r)

NextCrash ==
  \/ \E p \in Procs, r \in LockRequests : callCrash(p, r)
  \/ \E p \in Procs : stepOf(p)
  \/ \E p \in Procs : crash(p)

\* Concurrent callers, any of which may end inside the try block. A process
\* that has not ended keeps running: its timers fire and its synchronous
\* code runs to the end
SpecCrash == Init /\ [][NextCrash]_vars /\ \A p \in Procs : WF_vars(stepOf(p))

\* One caller: each call of getUniqueAppId finishes before the next is made
Caller == CHOOSE p \in Procs : TRUE

\* The single caller makes its next call
callSequential(r) == started < MaxSeqCalls /\ getUniqueAppId(Caller, r)

NextSeq ==
  \/ \E r \in Requests : callSequential(r)
  \/ acquireLockPoll(Caller)
  \/ acquireLockWrite(Caller)
  \/ assign(Caller)
  \/ saveRegistryOpen(Caller)
  \/ saveRegistryWrite(Caller)
  \/ releaseLockExists(Caller)
  \/ releaseLockUnlink(Caller)

SpecSeq == Init /\ [][NextSeq]_vars

\* The single caller makes its next call, for a request of MatchRequests
callMatch(r) == started < MaxMatchCalls /\ getUniqueAppId(Caller, r)

\* One caller whose titles include array-index keys and colliding keys
NextMatch ==
  \/ \E r \in MatchRequests : callMatch(r)
  \/ acquireLockPoll(Caller)
  \/ acquireLockWrite(Caller)
  \/ assign(Caller)
  \/ saveRegistryOpen(Caller)
  \/ saveRegistryWrite(Caller)
  \/ releaseLockExists(Caller)
  \/ releaseLockUnlink(Caller)

SpecMatch == Init /\ [][NextMatch]_vars

\* The watcher of app-requests.md with editors changing the document
NextBackup ==
  \/ \E c \in Documents : editorWrite(c)
  \/ editorDelete
  \/ tick
  \/ createBackup("add")
  \/ createBackup("change")
  \/ handleFileDeletion

InitBackup == idInit /\ bkInit

SpecBackup == InitBackup /\ [][NextBackup]_vars

\* The watcher on storage whose reads and writes can fail
NextBackupIO ==
  \/ NextBackup
  \/ \E event \in {"add", "change"}, at \in BackupSteps : createBackupThrows(event, at)
  \/ restoreFromBackupThrows
  \/ createEmergencyFileThrows

SpecBackupIO == InitBackup /\ [][NextBackupIO]_vars

----------------------------------------------------------------------------
(* Claims: helpers                                                         *)

\* `${title} ${description}`.toLowerCase() of a request
textOf(r) == toLowerCase(r.title \o SPACE \o descriptionOf(r))

succeeded(i) == returned[i].error = "none"

allIdle == \A p \in Procs : pc[p] = "idle"

\* Processes between the return of acquireLock and their call of releaseLock
holders == {p \in Procs : pc[p] \in {"assign", "saveOpen", "saveWrite", "release"}}

\* A whole call of getUniqueAppId(r) run with no other process active: the
\* id it returns and the registry file it leaves
callAlone(f, r) ==
  LET a == assignId(r, loadRegistry(f))
  IN  [appId |-> a.appId, file |-> writeBytes(openTruncate(f), a.registry)]

\* The ids of getUniqueAppId(r1) followed by getUniqueAppId(r2)
idsInOrder(f, r1, r2) ==
  <<callAlone(f, r1).appId, callAlone(callAlone(f, r1).file, r2).appId>>

\* The entries of the registry file
entriesOf(f) == loadRegistry(f).registry

Max(S) == CHOOSE m \in S : \A n \in S : n <= m

ID001 == <<48, 48, 49>>
ID002 == <<48, 48, 50>>

----------------------------------------------------------------------------
(* Claims                                                                  *)

\* C1: at most one process is between a successful return of acquireLock
\* and its own releaseLock.
C1_MutualExclusion == Cardinality(holders) <= 1

\* C2: once a finished call has returned id X for a request whose text
\* contains keyword k of its category, every call made later for a request
\* that contains k and no keyword of another registered category returns X.
C2_SameCategorySameId ==
  \A i, j \in DOMAIN returned :
    ( /\ i < j /\ succeeded(i) /\ succeeded(j)
      /\ returned[j].after >= i
      /\ \E n \in DOMAIN returned[i].typeData.keywords :
           /\ includes(textOf(returned[i].request), returned[i].typeData.keywords[n])
           /\ includes(textOf(returned[j].request), returned[i].typeData.keywords[n])
      /\ \A m \in DOMAIN returned :
           (returned[m].isNew /\ returned[m].typeData.name # returned[i].typeData.name)
             => ~hasKeyword(returned[m].typeData, textOf(returned[j].request)) )
    => returned[j].appId = returned[i].appId

\* C3: two calls that each register a new category never return the same
\* id, and no registration of a finished call is missing from the registry
\* file once every call has finished.
C3_NewIdsDistinctNoneLost ==
  /\ \A i, j \in DOMAIN returned :
       (i # j /\ succeeded(i) /\ succeeded(j) /\ returned[i].isNew /\ returned[j].isNew)
         => returned[i].appId # returned[j].appId
  /\ (allIdle /\ parses(registryFile)) =>
       \A i \in DOMAIN returned :
         (succeeded(i) /\ returned[i].isNew)
           => \E n \in DOMAIN entriesOf(registryFile) :
                entriesOf(registryFile)[n].value = returned[i].typeData

\* C4: the registry file is either absent or a complete registry that
\* parses, in every state, and no reader without the lock fails to parse it.
C4_NoPartialRegistry == registryFile.kind # "torn" /\ ~statsError

\* C5: from an empty registry the calls for "時間管理ツール"/"タイマー",
\* "ポモドーロタイマー"/"25分集中" and "家計簿アプリ"/"収支管理" return
\* "001", "001" and "002".
C5_Scenario ==
  LET asked == <<ReqJikan, ReqPomodoro, ReqKakeibo>>
      expected == <<ID001, ID001, ID002>>
  IN  \A n \in 1..3 :
        (Len(returned) >= n /\ \A i \in 1..n : returned[i].request = asked[i])
          => returned[n].appId = expected[n]

\* The texts of r1 and r2 both contain one registered keyword
shareKeyword(f, r1, r2) ==
  \E i \in DOMAIN entriesOf(f) :
    \E n \in DOMAIN entriesOf(f)[i].value.keywords :
      /\ includes(textOf(r1), toLowerCase(entriesOf(f)[i].value.keywords[n]))
      /\ includes(textOf(r2), toLowerCase(entriesOf(f)[i].value.keywords[n]))

\* The texts of r1 and r2 both contain a keyword of one category and no
\* keyword of any other category
shareOnlyCategory(f, r1, r2) ==
  \E i \in DOMAIN entriesOf(f) :
    /\ hasKeyword(entriesOf(f)[i].value, textOf(r1))
    /\ hasKeyword(entriesOf(f)[i].value, textOf(r2))
    /\ \A j \in DOMAIN entriesOf(f) \ {i} :
         /\ ~hasKeyword(entriesOf(f)[j].value, textOf(r1))
         /\ ~hasKeyword(entriesOf(f)[j].value, textOf(r2))

sameIdEitherOrder(f, r1, r2) ==
  /\ idsInOrder(f, r1, r2)[1] = idsInOrder(f, r1, r2)[2]
  /\ idsInOrder(f, r2, r1)[1] = idsInOrder(f, r2, r1)[2]
  /\ idsInOrder(f, r1, r2)[1] = idsInOrder(f, r2, r1)[1]

\* C6 as claimed: for every registry state and every two requests whose
\* texts contain a common registered keyword, sequential calls return the
\* same id, whichever request comes first.
C6_CommonKeywordSameId ==
  allIdle =>
    \A r1, r2 \in Requests :
      shareKeyword(registryFile, r1, r2) => sameIdEitherOrder(registryFile, r1, r2)

\* C6 amended: for every registry state and every two requests whose texts
\* both contain a keyword of the same category and no keyword of any other
\* category, sequential calls return the same id, whichever comes first.
C6_OnlyCategorySameId ==
  allIdle =>
    \A r1, r2 \in Requests :
      shareOnlyCategory(registryFile, r1, r2) => sameIdEitherOrder(registryFile, r1, r2)

C6_Witness ==
  /\ allIdle
  /\ Len(returned) >= 2
  /\ \E r1, r2 \in Requests : r1 # r2 /\ shareOnlyCategory(registryFile, r1, r2)

\* C7: in sequential calls, a call that registers a new category returns
\* the id one greater than the greatest id returned before ("001" first),
\* and next_available_id is one more than the number of registrations, so
\* it advances by one per registration and not at all on a match.
C7_FreshIdIsNextNumber ==
  /\ \A j \in DOMAIN returned :
       returned[j].isNew =>
         /\ parseInt(returned[j].appId)
              = 1 + Max({0} \cup {parseInt(returned[i].appId) : i \in 1..(j - 1)})
         /\ (j = 1 => returned[j].appId = ID001)
  /\ (allIdle /\ parses(registryFile)) =>
       parseInt(registryFile.data.next_available_id)
         = 1 + Cardinality({j \in DOMAIN returned : returned[j].isNew})

C7_Witness ==
  /\ allIdle
  /\ Len(returned) = 3
  /\ returned[1].isNew /\ ~returned[2].isNew /\ returned[3].isNew
  /\ returned[3].appId = ID002

\* C8: every category a finished call registered is still in the registry
\* file under its key, with its id and its keywords.
C8_AppendOnly ==
  (allIdle /\ parses(registryFile)) =>
    \A i \in DOMAIN returned :
      (succeeded(i) /\ returned[i].isNew) =>
        \E n \in DOMAIN entriesOf(registryFile) :
          /\ entriesOf(registryFile)[n].key = generateTypeKey(returned[i].request.title)
          /\ entriesOf(registryFile)[n].value.id = returned[i].appId
          /\ entriesOf(registryFile)[n].value.keywords = returned[i].typeData.keywords

\* C9: two calls in sequence with the identical request return the same
\* id, and the second registers no new category.
C9_Idempotent ==
  \A i \in DOMAIN returned :
    (i < Len(returned) /\ returned[i].request = returned[i + 1].request) =>
      /\ returned[i + 1].appId = returned[i].appId
      /\ ~returned[i + 1].isNew

\* C10: when handleFileDeletion has run with a latest snapshot present, the
\* document holds the snapshot's original_content and the emergency
\* placeholder was not written.
C10_RestoredFromLatest ==
  (handled.event = "unlink" /\ handled.hadBackup) =>
    /\ watchFile = file(latestBackup.content.original_content)
    /\ ~handled.emergency

\* "## 復旧方法": the heading of the recovery instructions
recoveryHeading == <<35, 35, 32, 24489, 26087, 26041, 27861>>

\* C11: when handleFileDeletion has run with no latest snapshot, the restore
\* failed with the no-backup error, the handler caught it, and the document
\* exists, is not empty and is the emergency template with its recovery
\* instructions.
C11_PlaceholderWithoutBackup ==
  (handled.event = "unlink" /\ ~handled.hadBackup) =>
    /\ handled.error = "NoBackup"
    /\ handled.emergency
    /\ watchFile # NOFILE
    /\ watchFile.content # <<>>
    /\ watchFile.content = emergencyContent
    /\ includes(watchFile.content, recoveryHeading)

C11_Witness ==
  /\ handled.event = "unlink"
  /\ ~handled.hadBackup
  /\ backupFiles = <<>>
  /\ watchFile = file(emergencyContent)

\* The files AppIdManager reads and writes
idFiles == <<lockFile, registryFile, logFile>>

\* The call that finishes in this step, when one does
finishing == returned'[Len(returned')]

\* C12: a call that fails with the lock timeout has only polled: each of its
\* steps leaves the marker, the registry file and the log as they are, it
\* fails straight out of acquireLock, and it returns no id.
C12_TimeoutChangesNothing ==
  [][ /\ \A p \in Procs :
           (pc[p] = "acquire" /\ (attempts'[p] # attempts[p] \/ pc'[p] = "idle"))
             => UNCHANGED idFiles
      /\ (Len(returned') > Len(returned) /\ finishing.error = "LockTimeout") =>
           /\ pc[finishing.pid] = "acquire"
           /\ UNCHANGED idFiles
           /\ finishing.appId = <<>>
           /\ ~finishing.isNew ]_vars

C12_Witness ==
  \E i \in DOMAIN returned :
    /\ returned[i].error = "LockTimeout"
    /\ lockFile # 0
    /\ lockFile # returned[i].pid

\* C13: when a call that acquired the lock finishes, with an id or with an
\* error, no marker is left; and a releaseLock that meets an absent marker
\* changes no file and raises no error of its own.
C13_ReleasedOnEveryExit ==
  [][ \A p \in Procs :
        (pc[p] \in {"release", "unlink"} /\ pc'[p] = "idle") =>
          /\ lockFile' = 0
          /\ lockFile = 0 => (UNCHANGED idFiles /\ finishing.error = result[p].error) ]_vars

\* JSON.parse of the registry file throws
corrupt(f) == ~(f.kind = "absent" \/ parses(f))

\* Process p finishes its call in this step
finishes(p) == pc[p] # "idle" /\ pc'[p] = "idle"

\* C14: a call that loads a registry file that does not parse goes to the
\* finally block without an id and without touching the registry file or
\* the log, and it finishes with that parse error, with no id, the registry
\* file left as it was.
C14_CorruptRegistrySurfaced ==
  [][ \A p \in Procs :
        /\ (pc[p] = "assign" /\ pc'[p] # "assign" /\ corrupt(registryFile)) =>
              /\ UNCHANGED <<registryFile, logFile>>
              /\ pc'[p] = "release"
              /\ result'[p].error = "SyntaxError"
              /\ result'[p].appId = <<>>
        /\ (finishes(p) /\ result[p].error = "SyntaxError") =>
              /\ UNCHANGED registryFile
              /\ finishing.appId = <<>>
              /\ ~finishing.isNew
              /\ finishing.error = "SyntaxError" ]_vars

\* The ids of the entries of a registry, as numbers
idsOf(reg) == {parseInt(reg.registry[n].value.id) : n \in DOMAIN reg.registry}

\* C15: every registry that parses from the registry file has pairwise
\* distinct ids, and its next_available_id is one more than the greatest
\* of them, "001" when it has no entries.
C15_WellFormed ==
  parses(registryFile) =>
    LET reg == loadRegistry(registryFile)
    IN  /\ \A m, n \in DOMAIN reg.registry :
             m # n => reg.registry[m].value.id # reg.registry[n].value.id
        /\ parseInt(reg.next_available_id) = 1 + Max({0} \cup idsOf(reg))
        /\ reg.registry = <<>> => reg.next_available_id = ID001

\* Three registrations, two of them under one key
C15_Witness ==
  /\ allIdle
  /\ parses(registryFile)
  /\ Cardinality({i \in DOMAIN returned : returned[i].isNew}) = 3
  /\ Len(loadRegistry(registryFile).registry) = 2

\* The 'add' or 'change' handler runs in this step with the document there
backsUp ==
  /\ events # <<>> /\ Head(events) \in {"add", "change"}
  /\ events' = Tail(events)
  /\ watchFile # NOFILE

\* The snapshot file with the greatest timestamp
mostRecent(files) ==
  files[CHOOSE i \in DOMAIN files :
          \A j \in DOMAIN files : files[j].backup_timestamp <= files[i].backup_timestamp]

\* C16: each createBackup on an existing document adds exactly one snapshot
\* file and leaves every snapshot file written before as it was, and
\* latest-backup.json, once written, holds the snapshot with the greatest
\* timestamp.
C16_HistoryAndLatest ==
  [][ /\ backsUp =>
           /\ Len(backupFiles') = Len(backupFiles) + 1
           /\ SubSeq(backupFiles', 1, Len(backupFiles)) = backupFiles
      /\ (backupFiles' = <<>>) = (latestBackup' = NOFILE)
      /\ backupFiles' # <<>> => latestBackup' = file(mostRecent(backupFiles')) ]_vars

\* C17: once the handling of an event has failed with a storage error, the
\* watcher is still running, so that the events that follow are handled.
C17_ErrorsIsolated == (handled.error = "EIO") => watching

\* The calls that registered a category, and the key each one stored under
registrations == {i \in DOMAIN returned : succeeded(i) /\ returned[i].isNew}
keyOf(i) == generateTypeKey(returned[i].request.title)
registeredKeys == {keyOf(i) : i \in registrations}

\* The first and the last registration under key k
firstUnder(k) == CHOOSE i \in registrations :
                   keyOf(i) = k /\ \A j \in registrations : keyOf(j) = k => i <= j
lastUnder(k) == CHOOSE i \in registrations :
                  keyOf(i) = k /\ \A j \in registrations : keyOf(j) = k => j <= i

\* The keys whose present entry has a keyword in the text of r
matchingKeys(r) ==
  {k \in registeredKeys : hasKeyword(returned[lastUnder(k)].typeData, textOf(r))}

\* k1 comes before k2 when the keys of an object are enumerated: array
\* indices in ascending order, then the other keys as first inserted
enumeratedBefore(k1, k2) ==
  IF IsArrayIndex(k1)
  THEN IsArrayIndex(k2) => parseInt(k1) < parseInt(k2)
  ELSE ~IsArrayIndex(k2) /\ firstUnder(k1) < firstUnder(k2)

\* The entry that was registered before every other matching entry
earliestRegistered(r) ==
  IF matchingKeys(r) = {} THEN NULL
  ELSE returned[CHOOSE i \in {lastUnder(k) : k \in matchingKeys(r)} :
                  \A k \in matchingKeys(r) : i <= lastUnder(k)].typeData

\* The matching entry whose key is enumerated first
firstEnumerated(r) ==
  IF matchingKeys(r) = {} THEN NULL
  ELSE returned[lastUnder(CHOOSE k \in matchingKeys(r) :
                  \A k2 \in matchingKeys(r) \ {k} : enumeratedBefore(k, k2))].typeData

\* findMatchingAppType on the registry in the file
matchNow(r) == findMatchingAppType(r.title, descriptionOf(r), loadRegistry(registryFile))

\* C18 as claimed: findMatchingAppType returns the earliest registered of
\* the entries that have a keyword in the lower-cased text, and null
\* exactly when there is none, whatever the keys are.
C18_EarliestRegistered ==
  (allIdle /\ parses(registryFile)) =>
    \A r \in MatchRequests : matchNow(r) = earliestRegistered(r)

\* C18 amended: findMatchingAppType returns, of the entries that have a
\* keyword in the lower-cased text, the one whose key the registry object
\* enumerates first (array-index keys in ascending numeric order, then the
\* other keys in the order they were first inserted), and null exactly
\* when there is none.
C18_FirstEnumerated ==
  (allIdle /\ parses(registryFile)) =>
    /\ \A r \in MatchRequests : matchNow(r) = firstEnumerated(r)
    /\ \A r \in MatchRequests : (matchNow(r) = NULL) = (matchingKeys(r) = {})

\* "Timer" registered first, "25" second, and the text with both keywords
\* matches the entry of "25"
C18_Witness ==
  /\ allIdle
  /\ Len(returned) >= 2
  /\ returned[1].request = ReqTimer
  /\ returned[2].request = Req25
  /\ matchNow(ReqSeveral).id = ID002

stale(q) == pc[q] = "crashed" /\ lockFile = q

\* C20: while the marker of a process that ended inside the try block is
\* on disk, no step removes or rewrites it, no call enters the try block
\* or writes the registry file, and every call that finishes fails with
\* the lock timeout.
C20_StaleMarkerStays ==
  [][ \A q \in Procs :
        stale(q) =>
          /\ lockFile' = lockFile
          /\ registryFile' = registryFile
          /\ \A p \in Procs : pc'[p] = "assign" => pc[p] = "assign"
          /\ \A p \in Procs : finishes(p) => finishing.error = "LockTimeout" ]_vars

\* Process p evaluates the while condition of acquireLock in this step
polls(p) == pc[p] = "acquire" /\ (attempts'[p] # attempts[p] \/ pc'[p] # "acquire")

\* C21: a poll of acquireLock that finds the marker absent goes on to write
\* the marker, after the 50th wait as well, and a call fails with the lock
\* timeout only when its last poll found the marker.
C21_TimeoutOnlyIfMarkerExists ==
  [][ \A p \in Procs :
        /\ (polls(p) /\ lockFile = 0) => pc'[p] = "lockWrite"
        /\ (finishes(p) /\ finishing.error = "LockTimeout") => lockFile # 0 ]_vars

\* The latest snapshot holds content c and the document, when it is there,
\* has not been edited since
recoverable(c) ==
  /\ latestBackup # NOFILE
  /\ latestBackup.content.original_content = c
  /\ watchFile \in {NOFILE, file(c)}

\* An editor writes the document in this step
externalEdit == edits' # edits /\ watchFile' # NOFILE

\* A snapshot of content written by an editor is in the history
userSnapshotExists ==
  \E i \in DOMAIN backupFiles : backupFiles[i].original_content \in Documents

\* C22: once the latest snapshot holds the editor's content C of the
\* document, every step other than an edit (deletions, their recoveries,
\* and the backups of the events the recovery writes raise) leaves the
\* latest snapshot's content C and the document C or deleted, every
\* recovery leaves the document C, and the emergency template is never the
\* latest snapshot's content while a snapshot of editor content exists.
C22_RecoveryStable ==
  [][ /\ \A c \in Documents :
           (recoverable(c) /\ ~externalEdit) =>
             /\ recoverable(c)'
             /\ handled'.event = "unlink" => watchFile' = file(c)
      /\ (userSnapshotExists => latestBackup.content.original_content # emergencyContent)'
    ]_vars

\* releaseLock of process p unlinks the marker in this step
removes(p) == pc[p] = "unlink" /\ pc'[p] = "idle" /\ lockFile # 0 /\ lockFile' = 0

\* Process q is inside the try block of getUniqueAppId, before its release
critical(q) == pc[q] \in {"assign", "saveOpen", "saveWrite", "release"}

\* C23: the marker a releaseLock removes is the one its own process wrote,
\* and never the marker of another process that is still inside its
\* critical section.
C23_ReleaseOwnMarker ==
  [][ \A p \in Procs :
        removes(p) =>
          /\ lockFile = p
          /\ \A q \in Procs \ {p} : ~(lockFile = q /\ critical(q)) ]_vars

====
